---------------------------- MODULE Spec2Model ----------------------------
(***************************************************************************)
(* Model of heap.h: class Heap, an array-backed binary min-heap of         *)
(* <element, priority> pairs of ints.                                      *)
(*                                                                         *)
(* The object under operation is held in A, hSize and hCapacity (the       *)
(* private members of the class).  Heap1 and Heap2 are the two argument    *)
(* heaps of the merging constructor.  The remaining variables are what a   *)
(* caller observes: the arguments of the constructor call, the last        *)
(* operation and its return value, and the pairs it put in and got out.    *)
(* frame is the activation of trickleUp, trickleDown or heapify in         *)
(* progress where a call is followed one activation at a time; it is idle  *)
(* where a call is taken as one step.                                      *)
(***************************************************************************)
EXTENDS Integers, Sequences, FiniteSets, Bags, TLC

VARIABLES A, hSize, hCapacity, Heap1, Heap2, args, op, ret,
          inserted, extracted, drained, ub, frame

vars == <<A, hSize, hCapacity, Heap1, Heap2, args, op, ret,
          inserted, extracted, drained, ub, frame>>

(***************************************************************************)
(* Bounds of the model.                                                    *)
(***************************************************************************)
MaxCap == 2
MaxPrio == 2
MaxElem == 1
MaxOps == 4
MaxGarbage == 1
MaxCount == 3
MaxSrcCap == 2
MaxSrcOps == 4
MaxFrameSrc == 2
MaxNeg == 2
MaxHeapify == 4
MaxStepSize == 4
MaxStepSrc == 4
MaxStepPrio == 1
MaxStepElem == 0
MaxSiftSrc == 3
MaxSpare == 1

(***************************************************************************)
(* Program constant: the capacity given by the default constructor.        *)
(***************************************************************************)
DefaultCapacity == 10

Elements == 0..MaxElem
Priorities == 0..MaxPrio

\* class Pair
Pair == [element : Elements, priority : Priorities]

\* A slot of `new Pair[n]` that no code has written yet.
Uninit == [element |-> -1, priority |-> -1]

\* The value of ret after a constructor or a call that returns nothing.
NoValue == -1

\* C++ integer division truncates toward zero.
CDiv(a, b) == IF a >= 0 THEN a \div b ELSE -((-a) \div b)

\* (i-1) / 2 as written in trickleUp.
Parent(i) == CDiv(i - 1, 2)

\* new Pair[n]
NewArray(n) == [i \in 0..(n - 1) |-> Uninit]

\* Faulty variant of swap: exchanges the priorities and leaves the elements.
swapPriorities(arr, i, j) ==
    [arr EXCEPT ![i] = [element |-> arr[i].element, priority |-> arr[j].priority],
                ![j] = [element |-> arr[j].element, priority |-> arr[i].priority]]

swap(arr, i, j) == [arr EXCEPT ![i] = arr[j], ![j] = arr[i]]

\* Faulty variant of trickleUp: one swap with the parent and no further climb.
trickleUpOnce(arr, i) ==
    IF i = 0 \/ arr[i].priority >= arr[Parent(i)].priority
    THEN arr
    ELSE swap(arr, i, Parent(i))

RECURSIVE trickleUp(_, _)
trickleUp(arr, i) ==
    IF i = 0 \/ arr[i].priority >= arr[Parent(i)].priority
    THEN arr
    ELSE trickleUp(swap(arr, i, Parent(i)), Parent(i))

\* Faulty variant of trickleDown: a node with a lone left child is taken for a
\* leaf.
RECURSIVE trickleDownNoLone(_, _, _)
trickleDownNoLone(arr, n, i) ==
    LET left == (2 * i) + 1
        right == (2 * i) + 2
    IN  IF left > n - 1 \/ right > n - 1
        THEN arr
        ELSE IF arr[i].priority <= arr[left].priority
                /\ arr[i].priority <= arr[right].priority
        THEN arr
        ELSE IF arr[left].priority > arr[right].priority
        THEN trickleDownNoLone(swap(arr, i, right), n, right)
        ELSE trickleDownNoLone(swap(arr, i, left), n, left)

\* Faulty variant of trickleDown: with two children it always descends left.
RECURSIVE trickleDownLeft(_, _, _)
trickleDownLeft(arr, n, i) ==
    LET left == (2 * i) + 1
        right == (2 * i) + 2
    IN  IF left > n - 1 /\ right > n - 1
        THEN arr
        ELSE IF right > n - 1 /\ arr[i].priority > arr[left].priority
        THEN swap(arr, i, left)
        ELSE IF left < n /\ right < n
        THEN IF arr[i].priority <= arr[left].priority
                /\ arr[i].priority <= arr[right].priority
             THEN arr
             ELSE trickleDownLeft(swap(arr, i, left), n, left)
        ELSE arr

RECURSIVE trickleDown(_, _, _)
trickleDown(arr, n, i) ==
    LET left == (2 * i) + 1
        right == (2 * i) + 2
    IN  IF left > n - 1 /\ right > n - 1
        THEN arr
        ELSE IF right > n - 1 /\ arr[i].priority > arr[left].priority
        THEN swap(arr, i, left)
        ELSE IF left < n /\ right < n
        THEN IF arr[i].priority <= arr[left].priority
                /\ arr[i].priority <= arr[right].priority
             THEN arr
             ELSE IF arr[left].priority > arr[right].priority
             THEN trickleDown(swap(arr, i, right), n, right)
             ELSE trickleDown(swap(arr, i, left), n, left)
        ELSE arr

\* Faulty variant of heapifyFrom: the loop stops before the root.
RECURSIVE heapifyNoRoot(_, _, _)
heapifyNoRoot(arr, n, i) ==
    IF i >= 1 THEN heapifyNoRoot(trickleDown(arr, n, i), n, i - 1) ELSE arr

\* The loop of heapify from index i down to 0.
RECURSIVE heapifyFrom(_, _, _)
heapifyFrom(arr, n, i) ==
    IF i >= 0 THEN heapifyFrom(trickleDown(arr, n, i), n, i - 1) ELSE arr

\* Faulty variant of heapify: the loop starts one index too low.
heapifyLate(arr, n) == heapifyFrom(arr, n, CDiv(n, 2) - 2)

heapify(arr, n) == heapifyFrom(arr, n, CDiv(n, 2) - 1)

\* Heap::insert on a heap record whose array has the slot h.hSize.
insert(h, element, priority) ==
    LET written == [h.A EXCEPT ![h.hSize] =
                        [element |-> element, priority |-> priority]]
    IN  [A |-> trickleUp(written, h.hSize),
         hSize |-> h.hSize + 1,
         hCapacity |-> h.hCapacity]

\* Faulty variant of extractMin: reads the result after the repair.
extractMinLate(h) ==
    LET moved == [h.A EXCEPT ![0] = h.A[h.hSize - 1]]
        repaired == trickleDown(moved, h.hSize - 1, 0)
    IN  [A |-> repaired,
         hSize |-> h.hSize - 1,
         hCapacity |-> h.hCapacity,
         min |-> repaired[0].element]

\* Faulty variant of extractMin: hSize is not decremented.
extractMinKeepSize(h) ==
    LET moved == [h.A EXCEPT ![0] = h.A[h.hSize - 1]]
    IN  [A |-> trickleDown(moved, h.hSize, 0),
         hSize |-> h.hSize,
         hCapacity |-> h.hCapacity,
         min |-> h.A[0].element]

\* Heap::extractMin on a heap record with h.hSize >= 1; min is the return value.
extractMin(h) ==
    LET min == h.A[0].element
        moved == [h.A EXCEPT ![0] = h.A[h.hSize - 1]]
    IN  [A |-> trickleDown(moved, h.hSize - 1, 0),
         hSize |-> h.hSize - 1,
         hCapacity |-> h.hCapacity,
         min |-> min]

\* Accessors.
empty(h) == h.hSize = 0
size(h) == h.hSize
capacity(h) == h.hCapacity
peekMin(h) == h.A[0].element
peekMinPriority(h) == h.A[0].priority

\* Heap::Heap() and Heap::Heap(int c)
HeapDefault == [A |-> NewArray(DefaultCapacity), hSize |-> 0,
                hCapacity |-> DefaultCapacity]
HeapCap(c) == [A |-> NewArray(c), hSize |-> 0, hCapacity |-> c]

\* The loop of Heap::Heap(Priorities, Elements, s, c) from index i on:
\* insert(Elements[i], Priorities[i]) for each i < s.
RECURSIVE insertFrom(_, _, _, _, _)
insertFrom(h, Prios, Elems, s, i) ==
    IF i < s
    THEN insertFrom(insert(h, Elems[i], Prios[i]), Prios, Elems, s, i + 1)
    ELSE h

\* Faulty variant of ConstRef: the argument is left empty, as if moved from.
MovedFrom(h) == [h EXCEPT !.hSize = 0]

\* A `const Heap &` argument of Heap::Heap(Heap1, Heap2, c) once the
\* constructor has run: std::copy reads Heap1.A and Heap2.A, nothing writes
\* to them.
ConstRef(h) == h

\* Heap::Heap(Heap1, Heap2, c)
HeapMerged(h1, h2, c) ==
    LET n == h1.hSize + h2.hSize
        cap == n + c
        copied == [k \in 0..(cap - 1) |->
                      IF k < h1.hSize THEN h1.A[k]
                      ELSE IF k < n THEN h2.A[k - h1.hSize]
                      ELSE Uninit]
    IN  [A |-> heapify(copied, n), hSize |-> n, hCapacity |-> cap]

\* The object under operation, as a record.
This == [A |-> A, hSize |-> hSize, hCapacity |-> hCapacity]


(***************************************************************************)
(* What the array holds, as a bag, and the ordering invariant.             *)
(***************************************************************************)
Contents(arr, n) ==
    LET S == {arr[i] : i \in 0..(n - 1)}
    IN  [x \in S |-> Cardinality({i \in 0..(n - 1) : arr[i] = x})]

HeapOrdered(arr, n) ==
    \A i \in 1..(n - 1) : arr[i].priority >= arr[Parent(i)].priority

MinPriority(arr, n) ==
    CHOOSE m \in {arr[i].priority : i \in 0..(n - 1)} :
        \A i \in 0..(n - 1) : m <= arr[i].priority

IsSorted(s) == \A i \in 1..(Len(s) - 1) : s[i] <= s[i + 1]

NoArgs == [kind |-> "none"]

\* No call in progress.
NoFrame == [fn |-> "idle"]

(***************************************************************************)
(* Initial states: the object right after Heap() or Heap(c), c >= 0.       *)
(***************************************************************************)
Constructed(h) ==
    /\ frame = NoFrame
    /\ A = h.A
    /\ hSize = h.hSize
    /\ hCapacity = h.hCapacity
    /\ Heap1 = HeapCap(0)
    /\ Heap2 = HeapCap(0)
    /\ op = "Heap"
    /\ ret = NoValue
    /\ inserted = EmptyBag
    /\ extracted = EmptyBag
    /\ drained = <<>>
    /\ ub = FALSE

Init ==
    \/ Constructed(HeapDefault) /\ args = [kind |-> "default"]
    \/ \E c \in 0..MaxCap :
          Constructed(HeapCap(c)) /\ args = [kind |-> "capacity", c |-> c]

(***************************************************************************)
(* insert(element, priority): the whole call.  With hSize outside the      *)
(* array the store A[hSize] lands in memory the object does not own; what  *)
(* trickleUp then reads back from that slot is any pair v.                 *)
(***************************************************************************)
Insert(element, priority) ==
    /\ UNCHANGED frame
    /\ op' = "insert"
    /\ ret' = NoValue
    /\ UNCHANGED <<hCapacity, Heap1, Heap2, args, extracted>>
    /\ IF hSize \in 0..(hCapacity - 1)
       THEN LET h == insert(This, element, priority)
            IN  /\ A' = h.A
                /\ hSize' = h.hSize
                /\ inserted' = inserted (+) SetToBag(
                       {[element |-> element, priority |-> priority]})
                /\ drained' = <<>>
                /\ ub' = ub
       ELSE \E v \in Pair :
                LET mem == [k \in (DOMAIN A) \cup {hSize} |->
                                IF k \in DOMAIN A THEN A[k] ELSE v]
                    after == IF hSize = 0 \/ Parent(hSize) \in DOMAIN A
                             THEN trickleUp(mem, hSize)
                             ELSE mem
                IN  /\ A' = [k \in DOMAIN A |-> after[k]]
                    /\ hSize' = hSize + 1
                    /\ UNCHANGED <<inserted, drained>>
                    /\ ub' = TRUE

(***************************************************************************)
(* extractMin(): the whole call.  With hSize <= 0 the code reads A[0]      *)
(* (never written, stale, or outside an array of capacity 0) and copies    *)
(* A[hSize-1], a slot below the array, over it; both reads yield any       *)
(* value when the slot holds nothing the program wrote.                    *)
(***************************************************************************)
ExtractMin ==
    /\ UNCHANGED frame
    /\ op' = "extractMin"
    /\ UNCHANGED <<hCapacity, Heap1, Heap2, args, inserted>>
    /\ IF hSize \in 1..hCapacity
       THEN LET h == extractMin(This)
            IN  /\ A' = h.A
                /\ hSize' = h.hSize
                /\ ret' = h.min
                /\ extracted' = extracted (+) SetToBag(
                       {[element |-> h.min, priority |-> peekMinPriority(This)]})
                /\ drained' = Append(drained, peekMinPriority(This))
                /\ ub' = ub
       ELSE \E v \in Pair, garbage \in Elements :
                /\ ret' = IF 0 \in DOMAIN A /\ A[0] # Uninit
                          THEN A[0].element
                          ELSE garbage
                /\ A' = IF 0 \in DOMAIN A
                        THEN trickleDown([A EXCEPT ![0] = v], hSize - 1, 0)
                        ELSE A
                /\ hSize' = hSize - 1
                /\ UNCHANGED <<extracted, drained>>
                /\ ub' = TRUE

(***************************************************************************)
(* peekMin() and peekMinPriority(): return a field of A[0].  The heap is   *)
(* const in both.  A[0] of an empty heap is a slot never written (any      *)
(* value), a stale entry, or outside an array of capacity 0.               *)
(***************************************************************************)
PeekMin ==
    /\ UNCHANGED frame
    /\ op' = "peekMin"
    /\ UNCHANGED <<A, hSize, hCapacity, Heap1, Heap2, args,
                   inserted, extracted, drained>>
    /\ IF 0 \in DOMAIN A /\ A[0] # Uninit
       THEN ret' = peekMin(This) /\ ub' = ub
       ELSE \E garbage \in Elements : ret' = garbage /\ ub' = TRUE

PeekMinPriority ==
    /\ UNCHANGED frame
    /\ op' = "peekMinPriority"
    /\ UNCHANGED <<A, hSize, hCapacity, Heap1, Heap2, args,
                   inserted, extracted, drained>>
    /\ IF 0 \in DOMAIN A /\ A[0] # Uninit
       THEN ret' = peekMinPriority(This) /\ ub' = ub
       ELSE \E garbage \in Priorities : ret' = garbage /\ ub' = TRUE

(***************************************************************************)
(* Valid use: the caller inserts only while size < capacity and extracts   *)
(* or peeks only while size > 0.  MaxOps bounds the number of inserts.     *)
(***************************************************************************)
ValidInsert(element, priority) ==
    /\ BagCardinality(inserted) < MaxOps
    /\ hSize < hCapacity
    /\ Insert(element, priority)

ValidExtractMin == hSize > 0 /\ ExtractMin

ValidPeekMin == hSize > 0 /\ PeekMin

ValidPeekMinPriority == hSize > 0 /\ PeekMinPriority

Next ==
    \/ \E element \in Elements, priority \in Priorities :
           ValidInsert(element, priority)
    \/ ValidExtractMin
    \/ ValidPeekMin
    \/ ValidPeekMinPriority

Spec == Init /\ [][Next]_vars

(***************************************************************************)
(* Any use: the caller calls anything at any time.  The run is followed up *)
(* to the first call with undefined behaviour.                             *)
(***************************************************************************)
AnyInsert(element, priority) ==
    /\ ~ub
    /\ BagCardinality(inserted) < MaxOps
    /\ Insert(element, priority)

AnyExtractMin == ~ub /\ ExtractMin

AnyPeekMin == ~ub /\ PeekMin

AnyPeekMinPriority == ~ub /\ PeekMinPriority

NextAny ==
    \/ \E element \in Elements, priority \in Priorities :
           AnyInsert(element, priority)
    \/ AnyExtractMin
    \/ AnyPeekMin
    \/ AnyPeekMinPriority

SpecAny == Init /\ [][NextAny]_vars

TypeOK ==
    /\ hCapacity \in 0..(DefaultCapacity + MaxCap)
    /\ DOMAIN A = 0..(hCapacity - 1)
    /\ \A i \in DOMAIN A : A[i] \in Pair \cup {Uninit}
    /\ hSize \in -1..(hCapacity + 1)
    /\ ub \in BOOLEAN


(***************************************************************************)
(* Before any constructor has run.                                         *)
(***************************************************************************)
Unconstructed ==
    /\ frame = NoFrame
    /\ A = NewArray(0)
    /\ hSize = 0
    /\ hCapacity = 0
    /\ args = NoArgs
    /\ op = "none"
    /\ ret = NoValue
    /\ inserted = EmptyBag
    /\ extracted = EmptyBag
    /\ drained = <<>>
    /\ ub = FALSE

(***************************************************************************)
(* Heap(Priorities, Elements, s, c): the whole constructor.  It allocates  *)
(* s + c slots, sets hCapacity and calls insert s times; it never assigns  *)
(* hSize, so insert starts from whatever value garbage the member holds,   *)
(* and trickleUp compares with whatever pairs junk the slots below that    *)
(* index hold.  Stores above the array land in the memory that follows it. *)
(***************************************************************************)
ArrayArgs ==
    UNION {[kind : {"arrays"}, Priorities : [0..(s - 1) -> Priorities],
            Elements : [0..(s - 1) -> Elements], s : {s}, c : 0..MaxSpare] :
               s \in 0..MaxCount}

InputPairs(a) ==
    LET S == {[element |-> a.Elements[i], priority |-> a.Priorities[i]] :
                 i \in 0..(a.s - 1)}
    IN  [x \in S |-> Cardinality({i \in 0..(a.s - 1) :
            x = [element |-> a.Elements[i], priority |-> a.Priorities[i]]})]

ArrayCtor(a) ==
    /\ UNCHANGED frame
    /\ op = "none"
    /\ \E garbage \in 0..MaxGarbage :
         \E junk \in [0..(garbage - 1) -> Pair] :
           LET cap == a.s + a.c
               top == IF garbage + a.s > cap THEN garbage + a.s ELSE cap
               mem == [k \in 0..(top - 1) |->
                          IF k < garbage THEN junk[k] ELSE Uninit]
               h == insertFrom([A |-> mem, hSize |-> garbage, hCapacity |-> cap],
                               a.Priorities, a.Elements, a.s, 0)
           IN  /\ A' = [k \in 0..(cap - 1) |-> h.A[k]]
               /\ hSize' = h.hSize
               /\ hCapacity' = cap
               /\ ub' = (a.s > 0)
    /\ args' = a
    /\ op' = "Heap"
    /\ inserted' = InputPairs(a)
    /\ UNCHANGED <<Heap1, Heap2, ret, extracted, drained>>

\* extractMin on the constructed heap while it holds an entry.
ArrayExtractMin ==
    /\ op # "none"
    /\ hSize \in 1..hCapacity
    /\ ExtractMin

InitArr == Unconstructed /\ Heap1 = HeapCap(0) /\ Heap2 = HeapCap(0)

NextArr ==
    \/ \E a \in ArrayArgs : ArrayCtor(a)
    \/ ArrayExtractMin

SpecArr == InitArr /\ [][NextArr]_vars

(***************************************************************************)
(* Heap(Heap1, Heap2, c): the two argument heaps are built by inserts,     *)
(* then the constructor runs as one step.                                  *)
(***************************************************************************)
Insert1(element, priority) ==
    /\ UNCHANGED frame
    /\ op = "none"
    /\ Heap1.hSize + Heap2.hSize < MaxSrcOps
    /\ Heap1.hSize < Heap1.hCapacity
    /\ Heap1' = insert(Heap1, element, priority)
    /\ UNCHANGED <<A, hSize, hCapacity, Heap2, args, op, ret,
                   inserted, extracted, drained, ub>>

Insert2(element, priority) ==
    /\ UNCHANGED frame
    /\ op = "none"
    /\ Heap1.hSize + Heap2.hSize < MaxSrcOps
    /\ Heap2.hSize < Heap2.hCapacity
    /\ Heap2' = insert(Heap2, element, priority)
    /\ UNCHANGED <<A, hSize, hCapacity, Heap1, args, op, ret,
                   inserted, extracted, drained, ub>>

Merge(c) ==
    /\ UNCHANGED frame
    /\ op = "none"
    /\ LET h == HeapMerged(Heap1, Heap2, c)
       IN  /\ A' = h.A
           /\ hSize' = h.hSize
           /\ hCapacity' = h.hCapacity
    /\ Heap1' = ConstRef(Heap1)
    /\ Heap2' = ConstRef(Heap2)
    /\ args' = [kind |-> "merge", Heap1 |-> Heap1, Heap2 |-> Heap2, c |-> c]
    /\ op' = "Heap"
    /\ UNCHANGED <<ret, inserted, extracted, drained, ub>>

InitMerge ==
    /\ Unconstructed
    /\ Heap1 = HeapCap(MaxSrcCap)
    /\ Heap2 = HeapCap(MaxSrcCap)

NextMerge ==
    \/ \E element \in Elements, priority \in Priorities :
           Insert1(element, priority)
    \/ \E element \in Elements, priority \in Priorities :
           Insert2(element, priority)
    \/ \E c \in 0..MaxSpare : Merge(c)

SpecMerge == InitMerge /\ [][NextMerge]_vars

(***************************************************************************)
(* Heap(Heap1, Heap2, c) followed by calls on the new heap and on the      *)
(* argument heaps.  The argument heaps hold at most MaxFrameSrc entries     *)
(* together; after the constructor the run takes at most one call on the   *)
(* new heap and one on an argument heap, in either order.                  *)
(***************************************************************************)
FrameInsert1(element, priority) ==
    /\ Heap1.hSize + Heap2.hSize < MaxFrameSrc
    /\ Insert1(element, priority)

FrameInsert2(element, priority) ==
    /\ Heap1.hSize + Heap2.hSize < MaxFrameSrc
    /\ Insert2(element, priority)

MergedUntouched == inserted = EmptyBag /\ extracted = EmptyBag

SourcesUntouched == Heap1 = args.Heap1 /\ Heap2 = args.Heap2

MergedInsert(element, priority) ==
    /\ op # "none"
    /\ MergedUntouched
    /\ hSize < hCapacity
    /\ Insert(element, priority)

MergedExtractMin ==
    /\ op # "none"
    /\ MergedUntouched
    /\ hSize > 0
    /\ ExtractMin

SourceInsert1(element, priority) ==
    /\ op # "none"
    /\ SourcesUntouched
    /\ Heap1.hSize < Heap1.hCapacity
    /\ Heap1' = insert(Heap1, element, priority)
    /\ UNCHANGED <<A, hSize, hCapacity, Heap2, args, op, ret,
                   inserted, extracted, drained, ub, frame>>

SourceInsert2(element, priority) ==
    /\ op # "none"
    /\ SourcesUntouched
    /\ Heap2.hSize < Heap2.hCapacity
    /\ Heap2' = insert(Heap2, element, priority)
    /\ UNCHANGED <<A, hSize, hCapacity, Heap1, args, op, ret,
                   inserted, extracted, drained, ub, frame>>

SourceExtractMin1 ==
    /\ op # "none"
    /\ SourcesUntouched
    /\ Heap1.hSize > 0
    /\ LET h == extractMin(Heap1)
       IN  Heap1' = [A |-> h.A, hSize |-> h.hSize, hCapacity |-> h.hCapacity]
    /\ UNCHANGED <<A, hSize, hCapacity, Heap2, args, op, ret,
                   inserted, extracted, drained, ub, frame>>

SourceExtractMin2 ==
    /\ op # "none"
    /\ SourcesUntouched
    /\ Heap2.hSize > 0
    /\ LET h == extractMin(Heap2)
       IN  Heap2' = [A |-> h.A, hSize |-> h.hSize, hCapacity |-> h.hCapacity]
    /\ UNCHANGED <<A, hSize, hCapacity, Heap1, args, op, ret,
                   inserted, extracted, drained, ub, frame>>

NextMergeOps ==
    \/ \E element \in Elements, priority \in Priorities :
           FrameInsert1(element, priority)
    \/ \E element \in Elements, priority \in Priorities :
           FrameInsert2(element, priority)
    \/ \E c \in 0..MaxSpare : Merge(c)
    \/ \E element \in Elements, priority \in Priorities :
           MergedInsert(element, priority)
    \/ MergedExtractMin
    \/ \E element \in Elements, priority \in Priorities :
           SourceInsert1(element, priority)
    \/ \E element \in Elements, priority \in Priorities :
           SourceInsert2(element, priority)
    \/ SourceExtractMin1
    \/ SourceExtractMin2

SpecMergeOps == InitMerge /\ [][NextMergeOps]_vars

(***************************************************************************)
(* Constructors called with a negative size.  `new Pair[n]` with n < 0     *)
(* throws std::bad_array_new_length, which leaves the constructor: no      *)
(* object comes to exist.  With n >= 0 the allocation succeeds.            *)
(***************************************************************************)
NewThrows(n) == n < 0

\* Heap::Heap(int c), for any int c.
CapacityCtor(c) ==
    /\ op = "none"
    /\ IF NewThrows(c)
       THEN /\ op' = "bad_array_new_length"
            /\ UNCHANGED <<A, hSize, hCapacity>>
       ELSE /\ op' = "Heap"
            /\ A' = HeapCap(c).A
            /\ hSize' = HeapCap(c).hSize
            /\ hCapacity' = HeapCap(c).hCapacity
    /\ args' = [kind |-> "capacity", c |-> c]
    /\ UNCHANGED <<Heap1, Heap2, ret, inserted, extracted, drained, ub, frame>>

\* Arguments with a negative count s; the caller's arrays have any length n.
NegativeArrayArgs ==
    UNION {[kind : {"arrays"}, Priorities : [0..(n - 1) -> Priorities],
            Elements : [0..(n - 1) -> Elements], s : (-MaxNeg)..(-1),
            c : 0..(MaxSpare + MaxNeg)] : n \in 0..MaxCount}

\* Heap::Heap(Priorities, Elements, s, c), for any int s.
SignedArrayCtor(a) ==
    IF NewThrows(a.s + a.c)
    THEN /\ op = "none"
         /\ op' = "bad_array_new_length"
         /\ args' = a
         /\ UNCHANGED <<A, hSize, hCapacity, Heap1, Heap2, ret, inserted,
                        extracted, drained, ub, frame>>
    ELSE ArrayCtor(a)

NextNeg ==
    \/ \E c \in (-MaxNeg)..MaxCap : CapacityCtor(c)
    \/ \E a \in ArrayArgs \cup NegativeArrayArgs : SignedArrayCtor(a)

SpecNeg == InitArr /\ [][NextNeg]_vars

(***************************************************************************)
(* heapify() on its own: the array holds any hSize pairs in any order, and *)
(* one step runs the whole loop.                                           *)
(***************************************************************************)
InitHeapify ==
    /\ \E n \in 0..MaxHeapify : \E arr \in [0..(n - 1) -> Pair] :
          /\ A = arr
          /\ hSize = n
          /\ hCapacity = n
    /\ frame = NoFrame
    /\ Heap1 = HeapCap(0)
    /\ Heap2 = HeapCap(0)
    /\ args = NoArgs
    /\ op = "none"
    /\ ret = NoValue
    /\ inserted = EmptyBag
    /\ extracted = EmptyBag
    /\ drained = <<>>
    /\ ub = FALSE

Heapify ==
    /\ op = "none"
    /\ A' = heapify(A, hSize)
    /\ args' = [kind |-> "heapify", A |-> A]
    /\ op' = "heapify"
    /\ UNCHANGED <<hSize, hCapacity, Heap1, Heap2, ret, inserted, extracted,
                   drained, ub, frame>>

NextHeapify == Heapify

SpecHeapify == InitHeapify /\ [][NextHeapify]_vars

(***************************************************************************)
(* The calls taken one activation at a time.  frame says where control is: *)
(*   "trickleUp"   about to run trickleUp(frame.i), called from insert     *)
(*   "insert"      trickleUp has returned, hSize++ comes next              *)
(*   "trickleDown" about to run trickleDown(frame.i), called from          *)
(*                 frame.caller (extractMin or heapify)                    *)
(*   "extractMin"  trickleDown has returned, return min comes next         *)
(*   "heapify"     at the loop test of heapify with i = frame.loop         *)
(* frame.acc holds the array indices the last step read or wrote and       *)
(* frame.cmp the indices whose priorities it compared.                     *)
(***************************************************************************)
Done == -1

Frame(fn, i, caller, loop, min, acc, cmp) ==
    [fn |-> fn, i |-> i, caller |-> caller, loop |-> loop, min |-> min,
     acc |-> acc, cmp |-> cmp]

\* A[k]; a slot outside the array holds no pair of the heap.
At(arr, k) == IF k \in DOMAIN arr THEN arr[k] ELSE Uninit

\* Faulty variant of trickleUpStep: the recursive call is made on i again.
trickleUpStepStay(arr, i) ==
    IF i = 0
    THEN [A |-> arr, next |-> Done, acc |-> {}, cmp |-> {}]
    ELSE IF At(arr, i).priority >= At(arr, Parent(i)).priority
    THEN [A |-> arr, next |-> Done, acc |-> {i, Parent(i)},
          cmp |-> {i, Parent(i)}]
    ELSE [A |-> swap(arr, i, Parent(i)), next |-> i,
          acc |-> {i, Parent(i)}, cmp |-> {i, Parent(i)}]

\* Faulty variant of trickleUpStep: an entry equal to its parent moves up too.
trickleUpStepEq(arr, i) ==
    IF i = 0
    THEN [A |-> arr, next |-> Done, acc |-> {}, cmp |-> {}]
    ELSE IF At(arr, i).priority > At(arr, Parent(i)).priority
    THEN [A |-> arr, next |-> Done, acc |-> {i, Parent(i)},
          cmp |-> {i, Parent(i)}]
    ELSE [A |-> swap(arr, i, Parent(i)), next |-> Parent(i),
          acc |-> {i, Parent(i)}, cmp |-> {i, Parent(i)}]

\* One activation of trickleUp(i): the array it leaves and the index of the
\* recursive call it makes (Done when it returns without one).
trickleUpStep(arr, i) ==
    IF i = 0
    THEN [A |-> arr, next |-> Done, acc |-> {}, cmp |-> {}]
    ELSE IF At(arr, i).priority >= At(arr, Parent(i)).priority
    THEN [A |-> arr, next |-> Done, acc |-> {i, Parent(i)},
          cmp |-> {i, Parent(i)}]
    ELSE [A |-> swap(arr, i, Parent(i)), next |-> Parent(i),
          acc |-> {i, Parent(i)}, cmp |-> {i, Parent(i)}]

\* Faulty variant of trickleDownStep: with equal children it descends right.
trickleDownStepRightTies(arr, n, i) ==
    LET left == (2 * i) + 1
        right == (2 * i) + 2
    IN  IF left > n - 1 /\ right > n - 1
        THEN [A |-> arr, next |-> Done, acc |-> {}, cmp |-> {}]
        ELSE IF right > n - 1
        THEN IF At(arr, i).priority > At(arr, left).priority
             THEN [A |-> swap(arr, i, left), next |-> Done,
                   acc |-> {i, left}, cmp |-> {i, left}]
             ELSE [A |-> arr, next |-> Done, acc |-> {i, left},
                   cmp |-> {i, left}]
        ELSE IF left < n /\ right < n
        THEN IF At(arr, i).priority <= At(arr, left).priority
                /\ At(arr, i).priority <= At(arr, right).priority
             THEN [A |-> arr, next |-> Done, acc |-> {i, left, right},
                   cmp |-> {i, left, right}]
             ELSE IF At(arr, left).priority >= At(arr, right).priority
             THEN [A |-> swap(arr, i, right), next |-> right,
                   acc |-> {i, left, right}, cmp |-> {i, left, right}]
             ELSE [A |-> swap(arr, i, left), next |-> left,
                   acc |-> {i, left, right}, cmp |-> {i, left, right}]
        ELSE [A |-> arr, next |-> Done, acc |-> {}, cmp |-> {}]

\* Faulty variant of trickleDownStep: a lone child equal to its parent is
\* swapped with it.
trickleDownStepLoneEq(arr, n, i) ==
    LET left == (2 * i) + 1
        right == (2 * i) + 2
    IN  IF left > n - 1 /\ right > n - 1
        THEN [A |-> arr, next |-> Done, acc |-> {}, cmp |-> {}]
        ELSE IF right > n - 1
        THEN IF At(arr, i).priority >= At(arr, left).priority
             THEN [A |-> swap(arr, i, left), next |-> Done,
                   acc |-> {i, left}, cmp |-> {i, left}]
             ELSE [A |-> arr, next |-> Done, acc |-> {i, left},
                   cmp |-> {i, left}]
        ELSE IF left < n /\ right < n
        THEN IF At(arr, i).priority <= At(arr, left).priority
                /\ At(arr, i).priority <= At(arr, right).priority
             THEN [A |-> arr, next |-> Done, acc |-> {i, left, right},
                   cmp |-> {i, left, right}]
             ELSE IF At(arr, left).priority > At(arr, right).priority
             THEN [A |-> swap(arr, i, right), next |-> right,
                   acc |-> {i, left, right}, cmp |-> {i, left, right}]
             ELSE [A |-> swap(arr, i, left), next |-> left,
                   acc |-> {i, left, right}, cmp |-> {i, left, right}]
        ELSE [A |-> arr, next |-> Done, acc |-> {}, cmp |-> {}]

\* One activation of trickleDown(i) with hSize = n.  When right > n - 1 and
\* the first test failed, left <= n - 1, so the second test compares A[i]
\* with A[left]; if it fails too, the third test fails and the call returns.
trickleDownStep(arr, n, i) ==
    LET left == (2 * i) + 1
        right == (2 * i) + 2
    IN  IF left > n - 1 /\ right > n - 1
        THEN [A |-> arr, next |-> Done, acc |-> {}, cmp |-> {}]
        ELSE IF right > n - 1
        THEN IF At(arr, i).priority > At(arr, left).priority
             THEN [A |-> swap(arr, i, left), next |-> Done,
                   acc |-> {i, left}, cmp |-> {i, left}]
             ELSE [A |-> arr, next |-> Done, acc |-> {i, left},
                   cmp |-> {i, left}]
        ELSE IF left < n /\ right < n
        THEN IF At(arr, i).priority <= At(arr, left).priority
                /\ At(arr, i).priority <= At(arr, right).priority
             THEN [A |-> arr, next |-> Done, acc |-> {i, left, right},
                   cmp |-> {i, left, right}]
             ELSE IF At(arr, left).priority > At(arr, right).priority
             THEN [A |-> swap(arr, i, right), next |-> right,
                   acc |-> {i, left, right}, cmp |-> {i, left, right}]
             ELSE [A |-> swap(arr, i, left), next |-> left,
                   acc |-> {i, left, right}, cmp |-> {i, left, right}]
        ELSE [A |-> arr, next |-> Done, acc |-> {}, cmp |-> {}]

\* insert up to the call of trickleUp: the two stores into A[hSize].
insertCall(h, element, priority) ==
    [A |-> [h.A EXCEPT ![h.hSize] =
                [element |-> element, priority |-> priority]],
     acc |-> {h.hSize}]

\* Faulty variant of extractMinCall: hSize is decremented before the move.
extractMinCallEarly(h) ==
    [A |-> [h.A EXCEPT ![0] = At(h.A, h.hSize - 2)],
     hSize |-> h.hSize - 1,
     min |-> At(h.A, 0).element,
     acc |-> {0, h.hSize - 2}]

\* extractMin up to the call of trickleDown.
extractMinCall(h) ==
    [A |-> [h.A EXCEPT ![0] = At(h.A, h.hSize - 1)],
     hSize |-> h.hSize - 1,
     min |-> At(h.A, 0).element,
     acc |-> {0, h.hSize - 1}]

\* The array after the two std::copy calls of Heap(Heap1, Heap2, c).
CopyBoth(h1, h2, c) ==
    [k \in 0..(h1.hSize + h2.hSize + c - 1) |->
        IF k < h1.hSize THEN h1.A[k]
        ELSE IF k < h1.hSize + h2.hSize THEN h2.A[k - h1.hSize]
        ELSE Uninit]

\* The indices trickleUp(i) can reach: i, its parent, ..., the root.
RECURSIVE PathToRoot(_)
PathToRoot(i) == IF i <= 0 THEN {0} ELSE {i} \cup PathToRoot(Parent(i))

(***************************************************************************)
(* Stepwise runs under valid use.  The heap is built by Heap(), Heap(c) or *)
(* Heap(Heap1, Heap2, c); a call starts only when no call is in progress,  *)
(* insert only below capacity and extractMin only on a non-empty heap.     *)
(* The argument heaps of a merge hold at most MaxStepSrc entries together  *)
(* and are destroyed before the merged heap is used.  Priorities are drawn *)
(* from 0..MaxStepPrio and elements from 0..MaxStepElem: no step reads an  *)
(* element.                                                                *)
(***************************************************************************)
NoSources == Heap1 = HeapCap(0) /\ Heap2 = HeapCap(0)

\* A merged heap takes one call; runs of calls are made on the heaps built
\* by Heap() and Heap(c).
FirstIfMerged == args.kind = "merge" => op = "Heap"

StepInsert1(element, priority) ==
    /\ Heap1.hSize + Heap2.hSize < MaxStepSrc
    /\ Insert1(element, priority)

StepInsert2(element, priority) ==
    /\ Heap1.hSize + Heap2.hSize < MaxStepSrc
    /\ Insert2(element, priority)

\* Heap(Heap1, Heap2, c) up to the call of heapify.
MergeCall(c) ==
    /\ op = "none"
    /\ frame = NoFrame
    /\ hSize' = Heap1.hSize + Heap2.hSize
    /\ hCapacity' = hSize' + c
    /\ A' = CopyBoth(Heap1, Heap2, c)
    /\ frame' = Frame("heapify", Done, "heapify", CDiv(hSize', 2) - 1,
                      NoValue, 0..(hSize' - 1), {})
    /\ args' = [kind |-> "merge", c |-> c]
    /\ op' = "Heap"
    /\ UNCHANGED <<Heap1, Heap2, ret, inserted, extracted, drained, ub>>

\* The loop test of heapify: call trickleDown(i), or leave the loop and
\* return from the constructor.
HeapifyLoop ==
    /\ frame.fn = "heapify"
    /\ frame' = IF frame.loop >= 0
                THEN Frame("trickleDown", frame.loop, "heapify", frame.loop,
                           NoValue, {}, {})
                ELSE NoFrame
    /\ UNCHANGED <<A, hSize, hCapacity, Heap1, Heap2, args, op, ret,
                   inserted, extracted, drained, ub>>

\* ~Heap() of both argument heaps.
Destroy ==
    /\ frame = NoFrame
    /\ op = "Heap"
    /\ args.kind = "merge"
    /\ ~NoSources
    /\ Heap1' = HeapCap(0)
    /\ Heap2' = HeapCap(0)
    /\ UNCHANGED <<A, hSize, hCapacity, args, op, ret, inserted, extracted,
                   drained, ub, frame>>

\* insert(element, priority) up to the call of trickleUp(hSize).
InsertCall(element, priority) ==
    /\ frame = NoFrame
    /\ op # "none"
    /\ NoSources
    /\ FirstIfMerged
    /\ hSize < hCapacity
    /\ hSize < MaxStepSize
    /\ LET c == insertCall(This, element, priority)
       IN  /\ A' = c.A
           /\ frame' = Frame("trickleUp", hSize, "insert", Done, NoValue,
                             c.acc, {})
    /\ op' = "insert"
    /\ UNCHANGED <<hSize, hCapacity, Heap1, Heap2, args, ret, inserted,
                   extracted, drained, ub>>

\* One activation of trickleUp.
TrickleUp ==
    /\ frame.fn = "trickleUp"
    /\ LET s == trickleUpStep(A, frame.i)
       IN  /\ A' = s.A
           /\ frame' = IF s.next # Done
                       THEN Frame("trickleUp", s.next, "insert", Done,
                                  NoValue, s.acc, s.cmp)
                       ELSE Frame("insert", frame.i, "insert", Done,
                                  NoValue, s.acc, s.cmp)
    /\ UNCHANGED <<hSize, hCapacity, Heap1, Heap2, args, op, ret, inserted,
                   extracted, drained, ub>>

\* hSize++ and the return of insert.
InsertReturn ==
    /\ frame.fn = "insert"
    /\ hSize' = hSize + 1
    /\ frame' = NoFrame
    /\ UNCHANGED <<A, hCapacity, Heap1, Heap2, args, op, ret, inserted,
                   extracted, drained, ub>>

\* extractMin up to the call of trickleDown(0).
ExtractMinCall ==
    /\ frame = NoFrame
    /\ op # "none"
    /\ NoSources
    /\ FirstIfMerged
    /\ hSize > 0
    /\ LET c == extractMinCall(This)
       IN  /\ A' = c.A
           /\ hSize' = c.hSize
           /\ frame' = Frame("trickleDown", 0, "extractMin", Done, c.min,
                             c.acc, {})
    /\ op' = "extractMin"
    /\ UNCHANGED <<hCapacity, Heap1, Heap2, args, ret, inserted, extracted,
                   drained, ub>>

\* One activation of trickleDown; when it returns without a recursive call
\* control is back in extractMin, or in heapify, which runs i--.
TrickleDown ==
    /\ frame.fn = "trickleDown"
    /\ LET s == trickleDownStep(A, hSize, frame.i)
       IN  /\ A' = s.A
           /\ frame' = IF s.next # Done
                       THEN Frame("trickleDown", s.next, frame.caller,
                                  frame.loop, frame.min, s.acc, s.cmp)
                       ELSE IF frame.caller = "extractMin"
                       THEN Frame("extractMin", frame.i, "extractMin", Done,
                                  frame.min, s.acc, s.cmp)
                       ELSE Frame("heapify", frame.i, "heapify",
                                  frame.loop - 1, NoValue, s.acc, s.cmp)
    /\ UNCHANGED <<hSize, hCapacity, Heap1, Heap2, args, op, ret, inserted,
                   extracted, drained, ub>>

\* return min.
ExtractMinReturn ==
    /\ frame.fn = "extractMin"
    /\ ret' = frame.min
    /\ frame' = NoFrame
    /\ UNCHANGED <<A, hSize, hCapacity, Heap1, Heap2, args, op, inserted,
                   extracted, drained, ub>>

InitStep == Init \/ InitMerge

NextStep ==
    \/ \E element \in 0..MaxStepElem, priority \in 0..MaxStepPrio :
           StepInsert1(element, priority)
    \/ \E element \in 0..MaxStepElem, priority \in 0..MaxStepPrio :
           StepInsert2(element, priority)
    \/ \E c \in 0..MaxSpare : MergeCall(c)
    \/ HeapifyLoop
    \/ Destroy
    \/ \E element \in 0..MaxStepElem, priority \in 0..MaxStepPrio :
           InsertCall(element, priority)
    \/ TrickleUp
    \/ InsertReturn
    \/ ExtractMinCall
    \/ TrickleDown
    \/ ExtractMinReturn

SpecStep == InitStep /\ [][NextStep]_vars

\* A call that has started runs on: nothing else executes (the class is
\* single-threaded and no step blocks), so each enabled step is taken.
SpecStepFair ==
    /\ SpecStep
    /\ WF_vars(HeapifyLoop)
    /\ WF_vars(TrickleUp)
    /\ WF_vars(InsertReturn)
    /\ WF_vars(TrickleDown)
    /\ WF_vars(ExtractMinReturn)

(***************************************************************************)
(* trickleDown seen one activation at a time inside heapify: the argument  *)
(* heaps hold at most MaxSiftSrc entries together, with any elements and   *)
(* priorities, and the run ends when the constructor returns.              *)
(***************************************************************************)
SiftInsert1(element, priority) ==
    /\ Heap1.hSize + Heap2.hSize < MaxSiftSrc
    /\ Insert1(element, priority)

SiftInsert2(element, priority) ==
    /\ Heap1.hSize + Heap2.hSize < MaxSiftSrc
    /\ Insert2(element, priority)

NextSift ==
    \/ \E element \in Elements, priority \in Priorities :
           SiftInsert1(element, priority)
    \/ \E element \in Elements, priority \in Priorities :
           SiftInsert2(element, priority)
    \/ \E c \in 0..MaxSpare : MergeCall(c)
    \/ HeapifyLoop
    \/ TrickleDown

SpecSift == InitMerge /\ [][NextSift]_vars

(***************************************************************************)
(* Properties under valid use (Spec).                                      *)
(***************************************************************************)

\* C1: after any sequence of valid operations on a heap built by Heap() or
\* Heap(c), every index i with 1 <= i < size has
\* priority(A[i]) >= priority(A[(i-1)/2]).
C1_HeapOrder == HeapOrdered(A, hSize)

C1_Witness ==
    /\ op = "extractMin"
    /\ hSize = 3
    /\ A[0].priority < A[1].priority
    /\ A[2].priority < A[1].priority

\* C2: extractMin on a non-empty heap returns the element of the entry at
\* index 0, whose priority is the minimum over all stored entries; the
\* entries left are the previous ones minus that one entry, and size drops by
\* exactly 1 (from 1 to 0 in particular).
C2_ExtractMinRemovesMin ==
    [][op' = "extractMin" =>
          /\ hSize >= 1
          /\ ret' = A[0].element
          /\ A[0].priority = MinPriority(A, hSize)
          /\ Contents(A', hSize') (+) SetToBag({A[0]}) = Contents(A, hSize)
          /\ hSize' = hSize - 1
          /\ (hSize = 1 => hSize' = 0 /\ Contents(A', hSize') = EmptyBag)]_vars

C2_Witness ==
    /\ op = "extractMin"
    /\ hSize = 2
    /\ BagCardinality(extracted) = 2
    /\ A[0].priority > 0

\* C3: on a non-empty heap peekMinPriority returns the minimum priority of
\* the stored entries and peekMin the element of the entry at index 0, which
\* carries that priority; neither changes the array, size or capacity.
C3_PeekReturnsMin ==
    [][op' \in {"peekMin", "peekMinPriority"} =>
          /\ hSize >= 1
          /\ A' = A /\ hSize' = hSize /\ hCapacity' = hCapacity
          /\ A[0].priority = MinPriority(A, hSize)
          /\ op' = "peekMinPriority" => ret' = MinPriority(A, hSize)
          /\ op' = "peekMin" => ret' = A[0].element]_vars

C3_Witness ==
    /\ op = "peekMin"
    /\ hSize = 4
    /\ ret = A[0].element
    /\ A[0].priority < A[1].priority
    /\ A[1].priority < A[3].priority

\* C4: extracting repeatedly, with no insert in between, yields priorities
\* in non-decreasing order.
C4_SortedExtraction == IsSorted(drained)

C4_Witness ==
    /\ hSize = 0
    /\ Len(drained) = 4
    /\ drained[1] < drained[2]
    /\ drained[3] < drained[4]

\* C5: the pairs inserted are exactly the pairs extracted plus the pairs
\* still stored, each element with the priority it was inserted with; once as
\* many pairs are extracted as were inserted, the extracted pairs are the
\* inserted ones and the heap is empty.
C5_RoundTrip ==
    /\ inserted = extracted (+) Contents(A, hSize)
    /\ BagCardinality(extracted) = BagCardinality(inserted) =>
           hSize = 0 /\ extracted = inserted

C5_Witness ==
    /\ hSize = 0
    /\ BagCardinality(inserted) = 4
    /\ extracted = inserted
    /\ Cardinality(BagToSet(extracted)) = 4
    /\ \E x, y \in BagToSet(extracted) :
           x.priority = y.priority /\ x.element # y.element

\* C8: on an initially empty heap, after k inserts and j extractMin calls
\* size() is k - j and empty() holds iff k = j; no operation lowers
\* capacity().
C8_SizeConsistency ==
    /\ size(This) = BagCardinality(inserted) - BagCardinality(extracted)
    /\ [][/\ size(This)' =
                BagCardinality(inserted') - BagCardinality(extracted')
          /\ empty(This)' <=>
                BagCardinality(inserted') = BagCardinality(extracted')
          /\ capacity(This)' >= capacity(This)]_vars

C8_Witness ==
    /\ op = "insert"
    /\ BagCardinality(inserted) = 4
    /\ BagCardinality(extracted) = 2
    /\ hSize = 2


(***************************************************************************)
(* Properties under any use (SpecAny).                                     *)
(***************************************************************************)

\* C9: insert on a heap with size = capacity either fails and leaves the
\* entries, size and capacity as they were, or grows the storage and stores
\* the entry; it never writes outside 0..capacity-1 and never drops or
\* overwrites an entry.
C9_InsertAtCapacity ==
    [][(op' = "insert" /\ hSize = hCapacity) =>
          /\ ~ub'
          /\ \/ A' = A /\ hSize' = hSize /\ hCapacity' = hCapacity
             \/ /\ hCapacity' > hCapacity
                /\ hSize' = hSize + 1
                /\ \E x \in Pair :
                       Contents(A', hSize') =
                           Contents(A, hSize) (+) SetToBag({x})]_vars

\* C10: extractMin, peekMin and peekMinPriority on a heap with size = 0 fail
\* and leave the heap unchanged: size stays 0, and no array slot is read as a
\* valid entry or written.
C10_EmptyHeapCalls ==
    [][(hSize = 0 /\ op' \in {"extractMin", "peekMin", "peekMinPriority"}) =>
          /\ ~ub'
          /\ A' = A
          /\ hSize' = 0
          /\ ret' = NoValue]_vars


\* C11: in every state reachable from a constructor by any sequence of insert
\* and extractMin calls, made at any time, 0 <= size <= capacity.
C11_SizeInvariant == 0 <= hSize /\ hSize <= hCapacity

(***************************************************************************)
(* Properties of the constructors (SpecArr, SpecMerge).                    *)
(***************************************************************************)

\* C6: Heap(Priorities, Elements, count, spare) yields a heap with
\* size = count and capacity = count + spare, whose entries are exactly the
\* pairs (Elements[i], Priorities[i]), i < count, in heap order; extracting
\* them all returns exactly those pairs, by non-decreasing priority.
C6_ArrayCtor ==
    /\ (op = "Heap" /\ args.kind = "arrays") =>
           /\ hSize = args.s
           /\ hCapacity = args.s + args.c
           /\ Contents(A, hSize) = InputPairs(args)
           /\ HeapOrdered(A, hSize)
    /\ (op = "extractMin" /\ args.kind = "arrays") =>
           /\ IsSorted(drained)
           /\ hSize = args.s - Len(drained)
           /\ hSize = 0 => extracted = InputPairs(args)

\* C7: Heap(Heap1, Heap2, spare) yields a heap whose size is
\* size(Heap1) + size(Heap2), whose capacity is that size plus spare, whose
\* entries are those of Heap1 and of Heap2 together, and which is in heap
\* order; Heap1, Heap2 or both may be empty.
C7_Merge ==
    (op = "Heap" /\ args.kind = "merge") =>
        /\ hSize = Heap1.hSize + Heap2.hSize
        /\ hCapacity = Heap1.hSize + Heap2.hSize + args.c
        /\ Contents(A, hSize) =
               Contents(Heap1.A, Heap1.hSize) (+) Contents(Heap2.A, Heap2.hSize)
        /\ HeapOrdered(A, hSize)

C7_Witness ==
    /\ op = "Heap"
    /\ args.kind = "merge"
    /\ Heap1.hSize = 2
    /\ Heap2.hSize = 2
    /\ A[0] = Heap2.A[0]
    /\ A[0].priority < Heap1.A[0].priority
    /\ A[1].priority < Heap1.A[1].priority

C7_WitnessEmpty ==
    /\ op = "Heap"
    /\ args.kind = "merge"
    /\ Heap1.hSize = 0
    /\ Heap2.hSize = 0
    /\ hCapacity = 1


\* C12: Heap(Heap1, Heap2, spare) leaves the arrays, sizes and capacities of
\* Heap1 and Heap2 exactly as they were before the call; afterwards a call on
\* the new heap changes neither of them, and a call on one of them does not
\* change the new heap.
C12_MergeFrame ==
    [][/\ (op = "none" /\ op' = "Heap") => Heap1' = Heap1 /\ Heap2' = Heap2
       /\ (op # "none" /\ op' \in {"insert", "extractMin"}
              /\ <<A, hSize>>' # <<A, hSize>>) =>
              Heap1' = Heap1 /\ Heap2' = Heap2
       /\ (op # "none" /\ (Heap1' # Heap1 \/ Heap2' # Heap2)) =>
              UNCHANGED <<A, hSize, hCapacity>>]_vars

C12_Witness ==
    /\ args.kind = "merge"
    /\ args.Heap1.hSize = 1
    /\ args.Heap2.hSize = 1
    /\ op = "extractMin"
    /\ hSize = 1
    /\ Heap1 = args.Heap1
    /\ Heap2.hSize = 2


\* C13: a constructor called with a negative size is rejected: Heap(c) with
\* c < 0 and Heap(Priorities, Elements, count, spare) with count < 0 fail and
\* no heap comes to exist.
C13_NegativeSizeRejected ==
    (/\ op # "none"
     /\ \/ args.kind = "capacity" /\ args.c < 0
        \/ args.kind = "arrays" /\ args.s < 0) =>
        op = "bad_array_new_length"


\* C15: heapify, run on an array holding any pairs in any order, leaves the
\* array in heap order with the same multiset of pairs.
C15_Heapify ==
    op = "heapify" =>
        /\ HeapOrdered(A, hSize)
        /\ Contents(A, hSize) = Contents(args.A, hSize)

C15_Witness ==
    /\ op = "heapify"
    /\ hSize = 4
    /\ ~HeapOrdered(args.A, hSize)
    /\ A[0] # args.A[0]
    /\ A[1] # args.A[1]
    /\ A[3] # args.A[3]


(***************************************************************************)
(* Properties of the single activations (SpecStep, SpecStepFair, SpecSift).*)
(***************************************************************************)

\* C14: every call terminates.  Along a call trickleUp's index strictly
\* decreases and stays >= 0, and at the root it returns; trickleDown's index
\* strictly increases and stays below hSize, and at a node without children
\* it returns; heapify's loop index goes down by one per round from
\* hSize/2 - 1 and the loop ends below 0.  Hence a call in progress always
\* comes to its end.
C14_Terminates ==
    /\ [][/\ (frame.fn = "trickleUp" /\ frame'.fn = "trickleUp") =>
                 0 <= frame'.i /\ frame'.i < frame.i
          /\ (frame.fn = "trickleUp" /\ frame.i = 0) => frame'.fn = "insert"
          /\ (frame.fn = "trickleDown" /\ frame'.fn = "trickleDown") =>
                 frame.i < frame'.i /\ frame'.i < hSize
          /\ (frame.fn = "trickleDown" /\ (2 * frame.i) + 1 >= hSize) =>
                 frame'.fn # "trickleDown"
          /\ (frame.fn = "trickleDown" /\ frame'.fn = "heapify") =>
                 frame'.loop = frame.loop - 1 /\ frame'.loop >= -1
          /\ (frame.fn = "heapify" /\ frame'.fn = "trickleDown") =>
                 frame'.i = frame.loop /\ frame.loop < hSize
          /\ (frame.fn = "heapify" /\ frame.loop < 0) => frame' = NoFrame
         ]_vars
    /\ (frame.fn # "idle") ~> (frame.fn = "idle")

C14_Witness ==
    /\ frame.fn = "trickleDown"
    /\ frame.caller = "heapify"
    /\ frame.loop = 0
    /\ frame.i = 1
    /\ frame.cmp = {0, 1, 2}
    /\ hSize = 4

\* C16: trickleDown at a node i with two children does not swap when
\* priority(i) <= both children's; otherwise it swaps i with the right child
\* when the right child's priority is strictly less than the left's and with
\* the left child if not (so the left wins a tie), and the next activation
\* runs at the child it swapped with.
C16_TwoChildren ==
    [][(frame.fn = "trickleDown" /\ (2 * frame.i) + 2 < hSize) =>
          LET i == frame.i
              left == (2 * i) + 1
              right == (2 * i) + 2
          IN  IF A[i].priority <= A[left].priority
                 /\ A[i].priority <= A[right].priority
              THEN A' = A /\ frame'.fn # "trickleDown"
              ELSE IF A[right].priority < A[left].priority
              THEN /\ A' = [A EXCEPT ![i] = A[right], ![right] = A[i]]
                   /\ frame'.fn = "trickleDown"
                   /\ frame'.i = right
              ELSE /\ A' = [A EXCEPT ![i] = A[left], ![left] = A[i]]
                   /\ frame'.fn = "trickleDown"
                   /\ frame'.i = left
      ]_vars

\* The left child has just won a tie: the pair now at 1 came from the root.
C16_Witness ==
    /\ frame.fn = "trickleDown"
    /\ frame.i = 1
    /\ frame.cmp = {0, 1, 2}
    /\ hSize = 3
    /\ A[0].priority = A[2].priority
    /\ A[1].priority > A[0].priority

\* C17: trickleDown at a node i whose only child is left swaps i with left
\* exactly when priority(left) < priority(i), an equal priority included in
\* "no swap", and returns without a recursive call; that lone child is the
\* last entry, left = hSize - 1, and has no children.
C17_LoneChild ==
    [][(frame.fn = "trickleDown" /\ (2 * frame.i) + 1 < hSize
           /\ (2 * frame.i) + 2 >= hSize) =>
          LET i == frame.i
              left == (2 * i) + 1
          IN  /\ left = hSize - 1
              /\ (2 * left) + 1 >= hSize
              /\ A' = IF A[left].priority < A[i].priority
                      THEN [A EXCEPT ![i] = A[left], ![left] = A[i]]
                      ELSE A
              /\ frame'.fn # "trickleDown"
      ]_vars

\* A lone child equal in priority to its parent, with another element, has
\* just been compared and left in place.
C17_Witness ==
    /\ frame.fn = "heapify"
    /\ frame.cmp = {0, 1}
    /\ hSize = 2
    /\ A[0].priority = A[1].priority
    /\ A[0].element # A[1].element
    /\ A[0] = Heap1.A[0]

\* C18: insert stores the new entry at index hSize and touches no other
\* slot; each activation of trickleUp at i swaps i with its parent and goes
\* on at the parent exactly when i is not the root and priority(i) is
\* strictly less than the parent's, and otherwise returns with the array
\* untouched; only slots on the path from index hSize to the root change;
\* hSize stays put until the return, which adds exactly 1.
C18_SiftUp ==
    [][/\ (frame = NoFrame /\ frame'.fn = "trickleUp") =>
              /\ frame'.i = hSize
              /\ hSize' = hSize
              /\ A'[hSize] \in Pair
              /\ \A k \in DOMAIN A \ {hSize} : A'[k] = A[k]
       /\ frame.fn = "trickleUp" =>
              LET i == frame.i
                  p == Parent(i)
              IN  /\ IF i # 0 /\ A[i].priority < A[p].priority
                     THEN /\ A' = [A EXCEPT ![i] = A[p], ![p] = A[i]]
                          /\ frame'.fn = "trickleUp"
                          /\ frame'.i = p
                     ELSE /\ A' = A
                          /\ frame'.fn = "insert"
                  /\ {k \in DOMAIN A : A'[k] # A[k]} \subseteq PathToRoot(hSize)
                  /\ hSize' = hSize
       /\ frame.fn = "insert" =>
              /\ hSize' = hSize + 1
              /\ A' = A
              /\ frame' = NoFrame
      ]_vars

\* The new entry has climbed from index 3 over index 1 to the root.
C18_Witness ==
    /\ frame.fn = "insert"
    /\ hSize = 3
    /\ frame.i = 0
    /\ A[0].priority < A[1].priority
    /\ A[1].priority <= A[3].priority

\* C19: under valid use of a heap built by Heap(), Heap(c) or
\* Heap(Heap1, Heap2, c), every array slot a step of insert, trickleUp,
\* extractMin, trickleDown or heapify reads or writes has an index in
\* 0..hCapacity-1, and every priority it compares sits at an index in
\* 0..hSize-1, or at index hSize, the slot just written, during insert.
C19_InBounds ==
    frame.fn # "idle" =>
        /\ frame.acc \subseteq 0..(hCapacity - 1)
        /\ frame.cmp \subseteq
               0..(IF frame.caller = "insert" THEN hSize ELSE hSize - 1)

\* extractMin on a full heap of capacity 2 has just moved the last entry.
C19_Witness ==
    /\ frame.fn = "trickleDown"
    /\ frame.caller = "extractMin"
    /\ frame.acc = {0, 1}
    /\ hCapacity = 2
    /\ hSize = 1

=============================================================================
